---- MODULE Spec2Model ----
(***************************************************************************)
(* The battleroyale standalone extension service                          *)
(* (src/extensions/battleroyale/standalone.mjs): the per-player attack    *)
(* cooldown, the bullet registry with one recurring timer per bullet, the *)
(* arena shrinker and the player-update handler.                          *)
(*                                                                         *)
(* JavaScript runs every handler to its first `await` without preemption, *)
(* so one action is the synchronous run of a handler up to its next       *)
(* await; the continuation after an await is a separate action.           *)
(***************************************************************************)
EXTENDS Integers, Sequences, FiniteSets, TLC

VARIABLES
  arenaOfMaps,   \* this.arenaOfMaps: [maps: ordered map names, rects: map -> Seq(rect)]
  bullets,       \* this.bullets: bullet ID -> [facing, bulletCoord, duration]
  bulletID,      \* this.bulletID: the next ID to assign
  cooldown,      \* this.cooldown: players with a pending cooldown timer
  fires,         \* this.fires: the strips added since the last clear, in order
  fireCounter,   \* this.fireCounter
  updateMap,     \* TRUE while the updateMap interval is scheduled
  mapPc,         \* 0: no updateMap callback in flight; i: awaiting the publish for map i
  updateBullet,  \* bullet IDs whose updateBullet interval is scheduled
  attacking,     \* c2s_attack calls suspended at the render await: set of [playerID, bulletID]
  players,       \* gameState.getPlayers(): playerID -> mapCoord
  layerFire,     \* last fire layer published per map (k = 0 before the first)
  relocated,     \* playerID -> teleport calls of the latest updateMap callback run
  out            \* what the last handler run returned / raised / called

vars == <<arenaOfMaps, bullets, bulletID, cooldown, fires, fireCounter, updateMap,
          mapPc, updateBullet, attacking, players, layerFire, relocated, out>>

-----------------------------------------------------------------------------
(* Program constants *)

BULLET_LIFE == 5

Facings == {"U", "D", "R", "L"}

\* the table with the vertical axis flipped
Facing2DirectionFlipped(f) ==
  CASE f = "U" -> <<0, -1>>
    [] f = "D" -> <<0, 1>>
    [] f = "R" -> <<1, 0>>
    [] f = "L" -> <<-1, 0>>

Facing2Direction(f) ==
  CASE f = "U" -> <<0, 1>>
    [] f = "D" -> <<0, -1>>
    [] f = "R" -> <<1, 0>>
    [] f = "L" -> <<-1, 0>>

-----------------------------------------------------------------------------
(* Bounds and the finite world the inputs are drawn from *)

MaxBullets == 2       \* attacks are accepted while bulletID < MaxBullets
MaxFireCounter == 6   \* arena ticks fire while fireCounter < MaxFireCounter

Players == {"p1", "p2"}
PlayerOrder == <<"p1", "p2">>      \* iteration order of getPlayers()

Coord(m, x, y) == [mapName |-> m, x |-> x, y |-> y]
Rect(x, y, w, h) == [x |-> x, y |-> y, w |-> w, h |-> h]

AllMaps == {"m1", "m2"}

Arena(maps, r1, r2) ==
  [maps |-> maps, rects |-> [m \in AllMaps |-> IF m = "m1" THEN r1 ELSE r2]]

\* Map configurations (getOriginalCellSetStartWith('battleroyaleArena')).
\* The bullet range: one map, one rectangle of 7 x 3 cells, so that a bullet
\* shot along the row is still inside when its age reaches BULLET_LIFE.
RangeConfig == Arena(<<"m1">>, <<Rect(0, 1, 7, 3)>>, << >>)

\* Configurations of the arena shrinker: one 10 x 10 room; a large room
\* followed by a small one; a small room followed by a large one; two large
\* rooms; a map of two rooms; a map without rectangles; no map at all.
ArenaConfigs ==
  { Arena(<<"m1">>, <<Rect(0, 0, 10, 10)>>, << >>),
    Arena(<<"m1", "m2">>, <<Rect(0, 1, 6, 3)>>, <<Rect(0, 0, 2, 2)>>),
    Arena(<<"m1", "m2">>, <<Rect(0, 1, 6, 3)>>, <<Rect(0, 0, 6, 4)>>),
    Arena(<<"m1", "m2">>, <<Rect(0, 0, 2, 2)>>, <<Rect(0, 1, 6, 3)>>),
    Arena(<<"m1">>, <<Rect(0, 0, 2, 3), Rect(4, 4, 6, 4)>>, << >>),
    Arena(<<"m1">>, << >>, << >>),
    Arena(<< >>, << >>, << >>) }

\* battleroyaleObstacles cells, as answered by getCell(coord, LAYER_OBSTACLE)
Obstacles == {Coord("m1", 0, 3)}

\* attack origins a client may send: one inside the range, one outside it
Origins == {Coord("m1", 0, 1), Coord("m1", 7, 7)}

\* cells the player feed may report
MoveCells == {Coord("m1", 2, 1)}

NoOut == [ret |-> "none", lookups |-> 0, fault |-> FALSE]

-----------------------------------------------------------------------------
(* Helpers *)

Min(a, b) == IF a <= b THEN a ELSE b

MinOf(S) == CHOOSE i \in S : \A j \in S : i <= j

\* Map.delete(key)
Delete(m, k) == [i \in DOMAIN m \ {k} |-> m[i]]

\* Map.set(key, value) on a new key
Put(m, k, v) == [i \in DOMAIN m \cup {k} |-> IF i = k THEN v ELSE m[i]]

\* insideMap(cellCoord): some arena rectangle of cellCoord.mapName contains it
insideMap(cellCoord) ==
  \E i \in DOMAIN arenaOfMaps.rects[cellCoord.mapName] :
    LET cell == arenaOfMaps.rects[cellCoord.mapName][i]
    IN /\ cell.x <= cellCoord.x /\ cellCoord.x < cell.x + cell.w
       /\ cell.y <= cellCoord.y /\ cellCoord.y < cell.y + cell.h

\* arenaOfMaps.get(mapName) is undefined for a map without an arena entry
hasArena(mapName) == \E i \in DOMAIN arenaOfMaps.maps : arenaOfMaps.maps[i] = mapName

\* helper.gameMap.getCell(coord, LAYER_OBSTACLE.layerName)
onObstacle(coord) == coord \in Obstacles

\* one step from coord along facing
Step(coord, facing) ==
  [coord EXCEPT !.x = @ + Facing2Direction(facing)[1],
                !.y = @ + Facing2Direction(facing)[2]]

\* teleport(mapCoord, playerID): target is (1,1) on the map of mapCoord
TeleportTarget(mapCoord) == [mapCoord EXCEPT !.x = 1, !.y = 1]

-----------------------------------------------------------------------------
(* Cooldown gate and spawn: c2s_attack up to the render await *)

\* this.bulletID++ : the counter after handing out id
NextBulletIDStuck(id) == id

NextBulletID(id) == id + 1

FacingInputs == Facings \cup {"X"}     \* "X": a facing the table does not hold

AttackCall(player, mapCoord, facing) ==
  /\ UNCHANGED <<arenaOfMaps, fires, fireCounter, updateMap, mapPc, updateBullet,
                 players, layerFire, relocated>>
  /\ IF ~hasArena(mapCoord.mapName)
     THEN \* iterating undefined throws: the async call rejects
          /\ out' = [NoOut EXCEPT !.ret = "rejected", !.fault = TRUE]
          /\ UNCHANGED <<bullets, bulletID, cooldown, attacking>>
     ELSE IF ~insideMap(mapCoord) \/ player \in cooldown
     THEN \* bare `return;`
          /\ out' = [NoOut EXCEPT !.ret = "undefined"]
          /\ UNCHANGED <<bullets, bulletID, cooldown, attacking>>
     ELSE /\ bulletID < MaxBullets
          /\ cooldown' = cooldown \cup {player}
          /\ bulletID' = NextBulletID(bulletID)
          /\ IF facing \notin Facings
             THEN \* Facing2Direction[facing][0] throws
                  /\ out' = [NoOut EXCEPT !.ret = "rejected", !.fault = TRUE]
                  /\ UNCHANGED <<bullets, attacking>>
             ELSE /\ bullets' = Put(bullets, bulletID,
                                    [facing |-> facing,
                                     bulletCoord |-> Step(mapCoord, facing),
                                     duration |-> 0])
                  /\ \E ok \in BOOLEAN :
                       IF ok
                       THEN /\ attacking' = attacking \cup
                                  {[playerID |-> player, bulletID |-> bulletID]}
                            /\ out' = NoOut
                       ELSE \* the awaited broadcast rejects: so does the call
                            /\ attacking' = attacking
                            /\ out' = [NoOut EXCEPT !.ret = "rejected", !.fault = TRUE]

\* The facings worth sending with an attack: a call that is denied (origin
\* outside the arena, or cooldown pending) returns before it reads facing.
FacingsRead(player, mapCoord) ==
  IF hasArena(mapCoord.mapName) /\ insideMap(mapCoord) /\ player \notin cooldown
  THEN FacingInputs ELSE {"U"}

\* c2s_attack after the render await: schedule the bullet's interval, return true
AttackResume(a) ==
  /\ a \in attacking
  /\ attacking' = attacking \ {a}
  /\ updateBullet' = updateBullet \cup {a.bulletID}
  /\ out' = [NoOut EXCEPT !.ret = "true"]
  /\ UNCHANGED <<arenaOfMaps, bullets, bulletID, cooldown, fires, fireCounter,
                 updateMap, mapPc, players, layerFire, relocated>>

\* the setTimeout callback of c2s_attack
CooldownTimeout(player) ==
  /\ player \in cooldown
  /\ cooldown' = cooldown \ {player}
  /\ out' = NoOut
  /\ UNCHANGED <<arenaOfMaps, bullets, bulletID, fires, fireCounter, updateMap,
                 mapPc, updateBullet, attacking, players, layerFire, relocated>>

-----------------------------------------------------------------------------
(* Bullet tick: the updateBullet interval callback *)

\* players.forEach(...) of the else branch, from the i-th player on.
\* bl: the registry so far, hit: players teleported so far,
\* y: bulletCoord.y of the ticking bullet (the closure's bulletCoord).
RECURSIVE CollisionScan(_, _, _, _)
CollisionScan(i, bl, hit, y) ==
  IF i > Len(PlayerOrder) THEN [bullets |-> bl, hit |-> hit]
  ELSE LET p == PlayerOrder[i]
           m == {j \in DOMAIN bl : /\ players[p].x = bl[j].bulletCoord.x
                                   /\ players[p].y = y}
       IN IF m = {} THEN CollisionScan(i + 1, bl, hit, y)
          ELSE CollisionScan(i + 1, Delete(bl, MinOf(m)), hit \cup {p}, y)

\* the termination test with > for >=
TerminatesLate(duration, coord) ==
  \/ duration > BULLET_LIFE
  \/ ~insideMap(coord)
  \/ onObstacle(coord)

\* the termination test without the obstacle lookup
TerminatesNoObstacle(duration, coord) ==
  \/ duration >= BULLET_LIFE
  \/ ~insideMap(coord)

\* duration >= BULLET_LIFE || !insideMap(coord) || getCell(coord, OBSTACLE)
Terminates(duration, coord) ==
  \/ duration >= BULLET_LIFE
  \/ ~insideMap(coord)
  \/ onObstacle(coord)

BulletTick(id) ==
  /\ id \in updateBullet
  /\ UNCHANGED <<arenaOfMaps, bulletID, cooldown, fires, fireCounter, updateMap,
                 mapPc, attacking, layerFire, relocated>>
  /\ IF id \notin DOMAIN bullets
     THEN \* this.bullets.get(bulletID) is undefined: the callback rejects
          /\ out' = [NoOut EXCEPT !.fault = TRUE]
          /\ UNCHANGED <<bullets, updateBullet, players>>
     ELSE LET coord == Step(bullets[id].bulletCoord, bullets[id].facing)
              moved == [bullets EXCEPT ![id].bulletCoord = coord,
                                       ![id].duration = @ + 1]
          IN \E ok \in BOOLEAN :
             IF Terminates(moved[id].duration, coord)
             THEN /\ updateBullet' = updateBullet \ {id}
                  /\ bullets' = Delete(moved, id)
                  /\ players' = players
                  /\ out' = [NoOut EXCEPT !.fault = ~ok]
             ELSE LET r == CollisionScan(1, moved, {}, coord.y)
                  IN /\ bullets' = r.bullets
                     /\ updateBullet' = IF r.hit = {} THEN updateBullet
                                        ELSE updateBullet \ {id}
                     /\ players' = [p \in Players |->
                                      IF p \in r.hit THEN TeleportTarget(players[p])
                                      ELSE players[p]]
                     /\ out' = [NoOut EXCEPT !.fault = ~ok]

-----------------------------------------------------------------------------
(* Arena shrinker: updateEdge and the updateMap interval callback *)

\* the strips without the Math.min clamp
StripsUnclamped(r, fc) ==
  << Rect(r.x, r.y, r.w, fc),
     Rect(r.x, r.y + r.h - fc, r.w, fc),
     Rect(r.x, r.y, fc, r.h),
     Rect(r.x + r.w - fc, r.y, fc, r.h) >>

\* the four strips updateEdge adds for one rectangle
Strips(r, fc) ==
  LET wbound == Min(fc, r.w \div 2)
      hbound == Min(fc, r.h \div 2)
  IN << Rect(r.x, r.y, r.w, hbound),
        Rect(r.x, r.y + r.h - hbound, r.w, hbound),
        Rect(r.x, r.y, wbound, r.h),
        Rect(r.x + r.w - wbound, r.y, wbound, r.h) >>

Consumed(r, fc) ==
  /\ Min(fc, r.w \div 2) = r.w \div 2
  /\ Min(fc, r.h \div 2) = r.h \div 2

RECURSIVE AddStrips(_, _, _, _)
AddStrips(fs, cells, i, fc) ==
  IF i > Len(cells) THEN fs
  ELSE AddStrips(fs \o Strips(cells[i], fc), cells, i + 1, fc)

\* updateEdge(fires, cellSets, fireCounter): the grown set and the return value
updateEdge(fs, cells, fc) ==
  [fires |-> AddStrips(fs, cells, 1, fc),
   needUpdate |-> Cardinality({i \in DOMAIN cells : Consumed(cells[i], fc)})
                    # Len(cells)]

\* The for-loop of the callback from the i-th map on, up to its next await
\* (or its end), with fire set fs and counter fc.
MapLoop(i, fs, fc) ==
  IF i > Len(arenaOfMaps.maps)
  THEN /\ fires' = fs
       /\ mapPc' = 0
       /\ out' = NoOut
       /\ UNCHANGED <<updateMap, layerFire>>
  ELSE LET mapName == arenaOfMaps.maps[i]
           e == updateEdge(fs, arenaOfMaps.rects[mapName], fc)
       IN /\ fires' = e.fires
          /\ IF ~e.needUpdate
             THEN \* clearInterval(updateMap); return
                  /\ updateMap' = FALSE
                  /\ mapPc' = 0
                  /\ out' = NoOut
                  /\ UNCHANGED layerFire
             ELSE /\ UNCHANGED updateMap
                  /\ \E ok \in BOOLEAN :
                       IF ok
                       THEN /\ layerFire' = [layerFire EXCEPT ![mapName] =
                                               [k |-> fc, cells |-> e.fires]]
                            /\ mapPc' = i
                            /\ out' = NoOut
                       ELSE \* the awaited broadcast rejects: the callback ends
                            /\ mapPc' = 0
                            /\ out' = [NoOut EXCEPT !.fault = TRUE]
                            /\ UNCHANGED layerFire

\* the interval fires: fireCounter++, fires.clear(), first loop iteration.
\* A run of the callback has ended before the next one starts (mapPc = 0):
\* the period is MAP_UPDATE_PERIOD = 20 s, an await lasts one broadcast.
ArenaTick ==
  /\ updateMap
  /\ mapPc = 0
  /\ fireCounter < MaxFireCounter
  /\ fireCounter' = fireCounter + 1
  /\ relocated' = [p \in Players |-> 0]
  /\ MapLoop(1, << >>, fireCounter + 1)
  /\ UNCHANGED <<arenaOfMaps, bullets, bulletID, cooldown, updateBullet,
                 attacking, players>>

\* after the publish await of map mapPc: teleport the players getCell reports
\* on the fire layer (hit), then go on with the next map
ArenaResume ==
  /\ mapPc > 0
  /\ \E hit \in SUBSET Players :
       /\ players' = [p \in Players |->
                        IF p \in hit THEN TeleportTarget(players[p]) ELSE players[p]]
       /\ relocated' = [p \in Players |->
                          IF p \in hit THEN relocated[p] + 1 ELSE relocated[p]]
       /\ MapLoop(mapPc + 1, fires, fireCounter)
  /\ UNCHANGED <<arenaOfMaps, bullets, bulletID, cooldown, fireCounter,
                 updateBullet, attacking>>

-----------------------------------------------------------------------------
(* Hazard reactor: the registerOnPlayerUpdate handler and onPlayerUpdate *)

\* a well-formed update {mapCoord, playerID}; hit: the layer for which getCell
\* answers truthy first ("bullet", then "fire"), or "none"
PlayerUpdate(playerID, mapCoord) ==
  /\ \E hit \in {"bullet", "fire", "none"} :
       /\ players' = [players EXCEPT ![playerID] =
                        IF hit = "none" THEN mapCoord ELSE TeleportTarget(mapCoord)]
       /\ out' = [NoOut EXCEPT !.lookups = IF hit = "bullet" THEN 1 ELSE 2]
  /\ UNCHANGED <<arenaOfMaps, bullets, bulletID, cooldown, fires, fireCounter,
                 updateMap, mapPc, updateBullet, attacking, layerFire, relocated>>

MalformedKinds == {"nonStringID", "noMapCoord"}

\* an update whose playerID is not a string, or whose mapCoord is undefined.
\* mapCoord === 'undefined' compares with the string, so an undefined mapCoord
\* goes on to getCell(undefined, ...): the lookup throws inside the async
\* function (a rejected promise the handler's try/catch never sees) or answers
\* falsy; a truthy answer reaches teleport(undefined, ...), which throws.
MalformedUpdate(kind) ==
  /\ IF kind = "nonStringID"
     THEN out' = NoOut
     ELSE \E n \in {1, 2}, thrown \in BOOLEAN :
            out' = [NoOut EXCEPT !.lookups = n, !.fault = thrown]
  /\ UNCHANGED <<arenaOfMaps, bullets, bulletID, cooldown, fires, fireCounter,
                 updateMap, mapPc, updateBullet, attacking, players, layerFire,
                 relocated>>

-----------------------------------------------------------------------------
Start(configs) ==
  /\ arenaOfMaps \in configs
  /\ bullets = << >>
  /\ bulletID = 0
  /\ cooldown = {}
  /\ fires = << >>
  /\ fireCounter = 0
  /\ updateMap = TRUE
  /\ mapPc = 0
  /\ updateBullet = {}
  /\ attacking = {}
  /\ players = [p \in Players |-> Coord("m1", 1, 1)]
  /\ layerFire = [m \in AllMaps |-> [k |-> 0, cells |-> << >>]]
  /\ relocated = [p \in Players |-> 0]
  /\ out = NoOut

\* The whole service.
Init == Start({RangeConfig} \cup ArenaConfigs)

Next ==
  \/ \E p \in Players, c \in Origins : \E f \in FacingsRead(p, c) : AttackCall(p, c, f)
  \/ \E a \in attacking : AttackResume(a)
  \/ \E p \in Players : CooldownTimeout(p)
  \/ \E id \in updateBullet : BulletTick(id)
  \/ ArenaTick
  \/ ArenaResume
  \/ \E p \in Players, c \in MoveCells : PlayerUpdate(p, c)
  \/ \E kind \in MalformedKinds : MalformedUpdate(kind)

Spec == Init /\ [][Next]_vars

\* The bullet range: attacks, cooldown timers, bullet ticks and player
\* updates, on RangeConfig.  The arena actions write only fires, fireCounter,
\* updateMap, mapPc, layerFire, out and (by teleport) players, and a teleport
\* moves a player to a cell PlayerUpdate can also report, so every run of the
\* service on RangeConfig shows here on the variables the bullet code reads.
InitBullets == Start({RangeConfig})

NextBullets ==
  \/ \E p \in Players, c \in Origins : \E f \in FacingsRead(p, c) : AttackCall(p, c, f)
  \/ \E a \in attacking : AttackResume(a)
  \/ \E p \in Players : CooldownTimeout(p)
  \/ \E id \in updateBullet : BulletTick(id)
  \/ \E p \in Players, c \in MoveCells \cup {Coord("m1", 1, 1)} : PlayerUpdate(p, c)

SpecBullets == InitBullets /\ [][NextBullets]_vars

\* The bullet range under fair timers: an interval that stays scheduled
\* fires (setInterval), a pending cooldown timer fires (setTimeout), a call
\* suspended at its render await resumes.  Attacks and player updates come
\* from the clients: nothing obliges them to happen.
SpecBulletsFair ==
  /\ SpecBullets
  /\ \A id \in 0 .. MaxBullets - 1 : WF_vars(BulletTick(id))
  /\ \A p \in Players : WF_vars(CooldownTimeout(p))
  /\ WF_vars(\E a \in attacking : AttackResume(a))

\* The arena shrinker and the hazard reactor while no attack arrives.
InitHazard == Start(ArenaConfigs)

NextHazard ==
  \/ ArenaTick
  \/ ArenaResume
  \/ \E p \in Players, c \in MoveCells : PlayerUpdate(p, c)
  \/ \E kind \in MalformedKinds : MalformedUpdate(kind)

SpecHazard == InitHazard /\ [][NextHazard]_vars
-----------------------------------------------------------------------------
(* Properties *)

InArena(c) == hasArena(c.mapName) /\ insideMap(c)

\* C1: an attack by a player who holds a pending cooldown returns false and
\* creates no bullet.
C1_SecondAttackReturnsFalse ==
  [][\A p \in Players, c \in Origins, f \in FacingInputs :
       (p \in cooldown /\ InArena(c) /\ AttackCall(p, c, f))
         => (out'.ret = "false" /\ bullets' = bullets /\ bulletID' = bulletID)]_vars

\* C1, the gate without the return value: an attack by a player who holds a
\* pending cooldown creates no bullet and resolves to undefined (falsy); an
\* attack from an arena cell by a player without one takes the cooldown.
C1_GateDeniesFalsy ==
  [][\A p \in Players, c \in Origins, f \in FacingInputs :
       (InArena(c) /\ AttackCall(p, c, f))
         => IF p \in cooldown
            THEN out'.ret = "undefined" /\ bullets' = bullets /\ bulletID' = bulletID
                 /\ cooldown' = cooldown
            ELSE p \in cooldown' /\ bulletID' = bulletID + 1]_vars

\* C2: an attack whose origin lies in no arena rectangle of its map returns
\* false and leaves the registry, the ID counter and the cooldown set as
\* they were.
C2_OutsideReturnsFalse ==
  [][\A p \in Players, c \in Origins, f \in FacingInputs :
       (hasArena(c.mapName) /\ ~insideMap(c) /\ AttackCall(p, c, f))
         => (out'.ret = "false" /\ UNCHANGED <<bullets, bulletID, cooldown>>)]_vars

\* C2 without the return value: such an attack changes nothing and resolves
\* to undefined (falsy).
C2_OutsideRejectedFalsy ==
  [][\A p \in Players, c \in Origins, f \in FacingInputs :
       (hasArena(c.mapName) /\ ~insideMap(c) /\ AttackCall(p, c, f))
         => (out'.ret = "undefined"
             /\ UNCHANGED <<bullets, bulletID, cooldown, attacking, updateBullet>>)]_vars

\* the displacement of a facing as the specification gives it
Unit(f) ==
  IF f = "U" THEN <<0, 1>>
  ELSE IF f = "D" THEN <<0, -1>>
  ELSE IF f = "R" THEN <<1, 0>>
  ELSE <<-1, 0>>

C4_AgeAndLifetime ==
  /\ [](\A id \in DOMAIN bullets :
          bullets[id].duration >= 0 /\ bullets[id].duration < BULLET_LIFE)
  /\ [][(bullets' # bullets) =>
        \A id \in updateBullet \cap DOMAIN bullets :
          BulletTick(id) =>
            /\ id \in DOMAIN bullets' =>
                 /\ bullets'[id].duration = bullets[id].duration + 1
                 /\ bullets'[id].facing = bullets[id].facing
                 /\ bullets'[id].bulletCoord =
                      Coord(bullets[id].bulletCoord.mapName,
                            bullets[id].bulletCoord.x + Unit(bullets[id].facing)[1],
                            bullets[id].bulletCoord.y + Unit(bullets[id].facing)[2])
            /\ bullets[id].duration + 1 >= BULLET_LIFE => id \notin DOMAIN bullets'
            /\ \A j \in DOMAIN bullets' \ {id} : bullets'[j] = bullets[j]]_vars

\* C4 witness: a bullet that has been ticked BULLET_LIFE - 1 times, five
\* cells from the shooter, with its timer still scheduled: its next tick is
\* the one in which the age reaches the lifetime.
C4_Witness ==
  \E id \in DOMAIN bullets \cap updateBullet :
    /\ bullets[id].duration = BULLET_LIFE - 1
    /\ bullets[id].bulletCoord = Coord("m1", BULLET_LIFE, 1)

\* C5: in the tick of a registered bullet on whose cell a player stands, that
\* player is moved to (1,1) of the map and that bullet leaves the registry.
C5_CollisionWithinOneTick ==
  [][\A id \in updateBullet \cap DOMAIN bullets, p \in Players :
       (players[p] = bullets[id].bulletCoord /\ bullets' # bullets /\ BulletTick(id))
         => (players'[p] = TeleportTarget(players[p]) /\ id \notin DOMAIN bullets')]_vars

\* C9: every ID in the registry is below the next ID to assign (so IDs in the
\* registry are distinct and none is handed out again); the counter never
\* decreases, and a step that registers a bullet registers exactly the ID the
\* counter showed and moves the counter one up.
C9_BulletIDs ==
  /\ [](\A id \in DOMAIN bullets : id >= 0 /\ id < bulletID)
  /\ [](\A a \in attacking : a.bulletID < bulletID)
  /\ [][/\ bulletID' >= bulletID
        /\ DOMAIN bullets' \ DOMAIN bullets \subseteq {bulletID}
        /\ bulletID \in DOMAIN bullets' => bulletID' = bulletID + 1]_vars

\* C9 witness: two bullets of two attacks in the registry under the IDs 0
\* and 1, after a tick has moved one of them.
C9_Witness ==
  /\ DOMAIN bullets = {0, 1}
  /\ bulletID = 2
  /\ \E id \in DOMAIN bullets : bullets[id].duration > 0

-----------------------------------------------------------------------------
(* Properties of the arena shrinker and the hazard reactor *)

MapsOf(cfg) == {cfg.maps[i] : i \in DOMAIN cfg.maps}

\* a rectangle is fully consumed at counter k
FullyConsumed(r, k) ==
  /\ (IF k < r.w \div 2 THEN k ELSE r.w \div 2) = r.w \div 2
  /\ (IF k < r.h \div 2 THEN k ELSE r.h \div 2) = r.h \div 2

\* C6: the shrinker has stopped only if every rectangle of every map is
\* fully consumed at the shrink counter.
C6_StopsOnlyWhenAllConsumed ==
  ~updateMap =>
    \A m \in MapsOf(arenaOfMaps) : \A i \in DOMAIN arenaOfMaps.rects[m] :
      FullyConsumed(arenaOfMaps.rects[m][i], fireCounter)

\* the four strips of rectangle r at counter k, as the specification gives them
SpecStrips(r, k) ==
  LET wB == IF k < r.w \div 2 THEN k ELSE r.w \div 2
      hB == IF k < r.h \div 2 THEN k ELSE r.h \div 2
  IN << Rect(r.x, r.y, r.w, hB), Rect(r.x, r.y + r.h - hB, r.w, hB),
        Rect(r.x, r.y, wB, r.h), Rect(r.x + r.w - wB, r.y, wB, r.h) >>

RECURSIVE SpecStripsOfRects(_, _, _)
SpecStripsOfRects(rects, i, k) ==
  IF i > Len(rects) THEN << >>
  ELSE SpecStrips(rects[i], k) \o SpecStripsOfRects(rects, i + 1, k)

\* the strips of the first n maps, in map order
RECURSIVE SpecStripsOfMaps(_, _)
SpecStripsOfMaps(n, k) ==
  IF n = 0 THEN << >>
  ELSE SpecStripsOfMaps(n - 1, k)
         \o SpecStripsOfRects(arenaOfMaps.rects[arenaOfMaps.maps[n]], 1, k)

\* C7: once the shrinker has stopped, the fire layer last published for a map
\* whose rectangles are all fully consumed is the one computed at the halting
\* value of the shrink counter.
C7_FinalFirePublished ==
  ~updateMap =>
    \A m \in MapsOf(arenaOfMaps) :
      (/\ arenaOfMaps.rects[m] # << >>
       /\ \A i \in DOMAIN arenaOfMaps.rects[m] :
            FullyConsumed(arenaOfMaps.rects[m][i], fireCounter))
        => layerFire[m].k = fireCounter

\* C8: after an arena tick at counter k >= 1 the fire set holds, for each
\* rectangle of the maps the tick has got to, exactly the four strips
\* (x,y,w,hB), (x,y+h-hB,w,hB), (x,y,wB,h), (x+w-wB,y,wB,h) with
\* wB = min(k, floor(w/2)) and hB = min(k, floor(h/2)); no bound exceeds half
\* of the dimension; a fully consumed rectangle yields the same strips at
\* every larger counter.
C8_Strips ==
  /\ fireCounter >= 1 =>
       /\ \E n \in 0 .. Len(arenaOfMaps.maps) : fires = SpecStripsOfMaps(n, fireCounter)
       /\ mapPc > 0 => fires = SpecStripsOfMaps(mapPc, fireCounter)
  /\ \A m \in MapsOf(arenaOfMaps) : \A i \in DOMAIN arenaOfMaps.rects[m] :
       LET r == arenaOfMaps.rects[m][i]
       IN \A k \in 1 .. MaxFireCounter + 1 :
            /\ Strips(r, k) = SpecStrips(r, k)
            /\ 2 * Strips(r, k)[1].h <= r.h /\ 2 * Strips(r, k)[3].w <= r.w
            /\ FullyConsumed(r, k) => Strips(r, k + 1) = Strips(r, k)
            /\ (r.w = 10 /\ r.h = 10) =>
                 Strips(r, k)[1].h = (IF k < 5 THEN k ELSE 5)

\* C8 witness: the 10 x 10 room at counter 5, its strips 5 wide and high.
C8_Witness ==
  /\ fireCounter = 5
  /\ fires = << Rect(0, 0, 10, 5), Rect(0, 5, 10, 5), Rect(0, 0, 5, 10), Rect(5, 0, 5, 10) >>

\* C10: an update whose playerID is not a string or whose mapCoord is absent
\* is dropped: no layer lookup, no relocation, no state change, no fault.
C10_MalformedDropped ==
  [][\A kind \in MalformedKinds :
       MalformedUpdate(kind)
         => (out'.lookups = 0 /\ ~out'.fault /\ players' = players)]_vars

-----------------------------------------------------------------------------
(* Properties of the bullet schedules and the collision scan *)

\* C11: a bullet's tick schedule is cancelled exactly on that bullet's own
\* removal: a step cancels the schedule of bullet id if and only if it removes
\* bullet id from the registry (so no bullet stays registered with its
\* schedule cancelled and no schedule outlives its bullet).
C11_CancelledOnOwnRemoval ==
  [][\A id \in DOMAIN bullets \cup updateBullet :
       (id \in updateBullet /\ id \notin updateBullet')
         <=> (id \in DOMAIN bullets /\ id \notin DOMAIN bullets')]_vars

\* the position of bullet b after one more tick, as the specification gives it
Advanced(b) ==
  Coord(b.bulletCoord.mapName,
        b.bulletCoord.x + Unit(b.facing)[1], b.bulletCoord.y + Unit(b.facing)[2])

\* a bullet tick ends the bullet: age at the lifetime, new position outside
\* every arena rectangle of the map, or new position on an obstacle cell
Ends(age, c) ==
  \/ age >= BULLET_LIFE
  \/ ~(\E i \in DOMAIN arenaOfMaps.rects[c.mapName] :
         LET r == arenaOfMaps.rects[c.mapName][i]
         IN r.x <= c.x /\ c.x < r.x + r.w /\ r.y <= c.y /\ c.y < r.y + r.h)
  \/ c \in Obstacles

\* C12: a bullet tick that gets to the collision scan relocates a player only
\* if the player's map coordinate (map, x, y) is the new position of the
\* ticking bullet, and the only bullet the scan removes is the ticking one,
\* and only when a player stands on that position.
C12_ScanHitsOnlyOwnCell ==
  [][(bullets' # bullets) =>
     \A id \in updateBullet \cap DOMAIN bullets :
       (BulletTick(id) /\ ~Ends(bullets[id].duration + 1, Advanced(bullets[id])))
         => /\ \A p \in Players :
                 players'[p] # players[p] => players[p] = Advanced(bullets[id])
            /\ \A j \in DOMAIN bullets \ DOMAIN bullets' :
                 /\ j = id
                 /\ \E p \in Players : players[p] = Advanced(bullets[id])]_vars

\* C13: a bullet tick first moves the bullet and adds 1 to its age, then tests
\* the new age and the new position: if the age is at the lifetime, or the new
\* position is outside every arena rectangle, or it is an obstacle cell, the
\* tick removes the bullet, cancels its schedule, relocates no player and
\* touches no other bullet; otherwise the bullet leaves the tick, if it stays,
\* at the new position with the new age, and a bullet leaves the registry
\* only by the collision scan (a player in the row of the new position).
C13_TerminationBeforeScan ==
  [][(bullets' # bullets) =>
     \A id \in updateBullet \cap DOMAIN bullets :
       BulletTick(id) =>
         LET new == Advanced(bullets[id])
             age == bullets[id].duration + 1
         IN IF Ends(age, new)
            THEN /\ id \notin DOMAIN bullets'
                 /\ id \notin updateBullet'
                 /\ players' = players
                 /\ \A j \in DOMAIN bullets \ {id} :
                      j \in DOMAIN bullets' /\ bullets'[j] = bullets[j]
            ELSE /\ id \in DOMAIN bullets' =>
                      bullets'[id] = [facing |-> bullets[id].facing,
                                      bulletCoord |-> new, duration |-> age]
                 /\ DOMAIN bullets' # DOMAIN bullets =>
                      \E p \in Players : /\ players[p].y = new.y
                                         /\ players'[p] = TeleportTarget(players[p])]_vars

\* C13 witness: a scheduled bullet one tick from the end of its life, while a
\* player stands in its row and in the column of another registered bullet
\* (the scan, if it ran in that tick, would hit).
C13_Witness ==
  \E id \in DOMAIN bullets \cap updateBullet :
    /\ bullets[id].duration = BULLET_LIFE - 1
    /\ \E j \in DOMAIN bullets \ {id}, p \in Players :
         /\ players[p].x = bullets[j].bulletCoord.x
         /\ players[p].y = Advanced(bullets[id]).y

\* C14: a publish that fails during a spawn does not stop the simulation of
\* the spawned bullet: whatever the publish does, the step of the attack that
\* registers a bullet leaves that bullet with a tick schedule, set or about to
\* be set by the same call.
C14_SpawnedBulletGetsSchedule ==
  [][(bulletID \in DOMAIN bullets') =>
       \/ bulletID \in updateBullet'
       \/ \E a \in attacking' : a.bulletID = bulletID]_vars

\* C15: a tick that fires for a bullet ID that is no longer in the registry
\* is a no-op: it raises no fault and changes neither the registry, nor the
\* schedules of the bullets, nor a player.
C15_MissingBulletTickIsNoOp ==
  [][\A id \in updateBullet \ DOMAIN bullets :
       BulletTick(id)
         => (~out'.fault /\ UNCHANGED <<bullets, updateBullet, players>>)]_vars

\* C18: under fair timers every bullet that enters the registry is
\* eventually removed from it.  (Runs that use up the MaxBullets attacks of
\* the model are let off, so that a run refuting this is one in which the
\* service still accepts attacks.)
C18_EveryBulletRemoved ==
  \A id \in 0 .. MaxBullets - 1 :
    (id \in DOMAIN bullets) ~> (id \notin DOMAIN bullets \/ bulletID = MaxBullets)

\* C19: every bullet in the registry is at a cell inside some arena
\* rectangle of its map that is not an obstacle cell.
C19_BulletsInsideArena ==
  \A id \in DOMAIN bullets :
    /\ InArena(bullets[id].bulletCoord)
    /\ bullets[id].bulletCoord \notin Obstacles

\* C19 for the bullets that have been ticked: a registered bullet of age 1 or
\* more is inside the arena and on no obstacle cell.
C19_TickedBulletsInsideArena ==
  \A id \in DOMAIN bullets :
    bullets[id].duration >= 1 =>
      /\ InArena(bullets[id].bulletCoord)
      /\ bullets[id].bulletCoord \notin Obstacles

-----------------------------------------------------------------------------
(* Further properties of the arena shrinker *)

\* C16: the shrinker halts for every map configuration, the one without maps
\* and the one without rectangles included: once an arena tick has run to its
\* end with nothing left to consume (every rectangle of every map, if there
\* is any, fully consumed at the shrink counter), the schedule is cancelled.
C16_HaltsWhenNothingLeft ==
  (/\ fireCounter >= 1
   /\ mapPc = 0
   /\ \A m \in MapsOf(arenaOfMaps) : \A i \in DOMAIN arenaOfMaps.rects[m] :
        FullyConsumed(arenaOfMaps.rects[m][i], fireCounter))
    => ~updateMap

\* C17: within one arena tick (one run of the updateMap callback over all
\* maps) a player is relocated at most once.
C17_OneRelocationPerArenaTick ==
  \A p \in Players : relocated[p] <= 1

Range(q) == {q[i] : i \in DOMAIN q}

\* C20: the fire layer last published for a map, at counter k, holds exactly
\* the four strips at k of each arena rectangle of that map, and no strip of
\* a rectangle of another map.
C20_PublishedStripsOfOwnMap ==
  \A m \in AllMaps :
    layerFire[m].k >= 1 =>
      Range(layerFire[m].cells)
        = Range(SpecStripsOfRects(arenaOfMaps.rects[m], 1, layerFire[m].k))
====
